---------------------------- MODULE Spec2Model ----------------------------
(***************************************************************************)
(* Model of davinci_sync.py: get_davinci_schedule (one HTTP request),     *)
(* generate_ics (JSON timetable -> iCalendar lines -> output file) and    *)
(* the __main__ flow that composes them.                                  *)
(*                                                                         *)
(* Text is modelled as sequences of one-character strings, so that        *)
(* formatting, parsing, replace() and lower() are computed, not assumed.  *)
(* A JSON scalar is a record [k, s]: k is "str", "null" or "absent" (the   *)
(* key is missing), s the characters of a string.  A JSON list is a       *)
(* record [k, l] with k "list", "null" or "absent".                       *)
(***************************************************************************)
EXTENDS Integers, Sequences, FiniteSets, TLC

(***************************************************************************)
(* Bounds of the model.                                                    *)
(***************************************************************************)
MaxLessons == 1
MaxDates == 2
MaxClock == 1
MaxRuns == 2

(***************************************************************************)
(* Characters and JSON values.                                             *)
(***************************************************************************)
DigitChars == <<"0", "1", "2", "3", "4", "5", "6", "7", "8", "9">>
Dig == {DigitChars[i] : i \in 1..10}
Dig19 == Dig \ {"0"}

DigitVal(c) == (CHOOSE i \in 1..10 : DigitChars[i] = c) - 1

Str(s) == [k |-> "str", s |-> s]
Null == [k |-> "null", s |-> <<>>]
Absent == [k |-> "absent", s |-> <<>>]

List(l) == [k |-> "list", l |-> l]
NullList == [k |-> "null", l |-> <<>>]
AbsentList == [k |-> "absent", l |-> <<>>]

\* dict.get(key, default): the default only when the key is missing; a key
\* present with a null value yields None.
Get(v, default) == IF v.k = "absent" THEN default ELSE v

\* f"{x}": a string as it is, None as the text "None".
Fmt(v) == IF v.k = "null" THEN <<"N", "o", "n", "e">> ELSE v.s

\* str.replace(old, new) for a one-character old.
RECURSIVE Replace(_, _, _)
Replace(s, old, new) ==
  IF s = <<>> THEN <<>>
  ELSE (IF Head(s) = old THEN new ELSE <<Head(s)>>) \o Replace(Tail(s), old, new)

UpperAlpha == <<"A", "B", "C", "D", "E", "F", "G", "H", "I", "J", "K", "L", "M",
                "N", "O", "P", "Q", "R", "S", "T", "U", "V", "W", "X", "Y", "Z">>
LowerAlpha == <<"a", "b", "c", "d", "e", "f", "g", "h", "i", "j", "k", "l", "m",
                "n", "o", "p", "q", "r", "s", "t", "u", "v", "w", "x", "y", "z">>

LowerChar(c) ==
  IF \E i \in 1..26 : UpperAlpha[i] = c
  THEN LowerAlpha[CHOOSE i \in 1..26 : UpperAlpha[i] = c]
  ELSE c

\* str.lower()
Lower(s) == [i \in 1..Len(s) |-> LowerChar(s[i])]

\* needle in hay, for strings
Contains(hay, needle) ==
  \E i \in 1..(Len(hay) - Len(needle) + 1) :
    SubSeq(hay, i, i + Len(needle) - 1) = needle

StartsWith(s, p) == Len(s) >= Len(p) /\ SubSeq(s, 1, Len(p)) = p

\* ", ".join(parts)
RECURSIVE Join(_)
Join(parts) ==
  IF parts = <<>> THEN <<>>
  ELSE IF Len(parts) = 1 THEN Head(parts)
  ELSE Head(parts) \o <<",", " ">> \o Join(Tail(parts))

(***************************************************************************)
(* datetime.strptime(text, "%Y%m%d%H%M"): the format becomes one regular   *)
(* expression, each directive an ordered list of alternatives; the first   *)
(* match in backtracking order is taken and must consume the whole text.  *)
(***************************************************************************)
DirY == << <<Dig, Dig, Dig, Dig>> >>
Dirm == << <<{"1"}, {"0", "1", "2"}>>, <<{"0"}, Dig19>>, <<Dig19>> >>
Dird == << <<{"3"}, {"0", "1"}>>, <<{"1", "2"}, Dig>>, <<{"0"}, Dig19>>,
           <<Dig19>>, <<{" "}, Dig19>> >>
DirH == << <<{"2"}, {"0", "1", "2", "3"}>>, <<{"0", "1"}, Dig>>, <<Dig>> >>
DirM == << <<{"0", "1", "2", "3", "4", "5"}, Dig>>, <<Dig>> >>
DateTimeFormat == <<DirY, Dirm, Dird, DirH, DirM>>

AltMatches(s, pos, alt) ==
  /\ pos + Len(alt) - 1 <= Len(s)
  /\ \A j \in 1..Len(alt) : s[pos + j - 1] \in alt[j]

\* The positions after each directive of the first match of directives
\* fi.. at pos (the last is the position after the match), <<>> if none.
RECURSIVE MatchFrom(_, _, _)
MatchFrom(s, pos, fi) ==
  IF fi > Len(DateTimeFormat) THEN <<pos>>
  ELSE LET alts == DateTimeFormat[fi]
           ok == {a \in 1..Len(alts) :
                    /\ AltMatches(s, pos, alts[a])
                    /\ MatchFrom(s, pos + Len(alts[a]), fi + 1) # <<>>}
       IN IF ok = {} THEN <<>>
          ELSE LET a == CHOOSE x \in ok : \A y \in ok : x <= y
                   np == pos + Len(alts[a])
               IN <<np>> \o MatchFrom(s, np, fi + 1)

\* int() of a matched group; the day group may start with a space.
RECURSIVE ToInt(_)
ToInt(s) ==
  IF s = <<>> THEN 0
  ELSE IF Head(s) = " " THEN ToInt(Tail(s))
  ELSE 10 * ToInt(SubSeq(s, 1, Len(s) - 1)) + DigitVal(s[Len(s)])

IsLeap(y) == (y % 4 = 0) /\ ((y % 100 # 0) \/ (y % 400 = 0))

DaysInMonth(y, m) ==
  IF m = 2 THEN (IF IsLeap(y) THEN 29 ELSE 28)
  ELSE IF m \in {4, 6, 9, 11} THEN 30 ELSE 31

NoTime == [ok |-> FALSE, Y |-> 0, M |-> 0, D |-> 0, h |-> 0, mi |-> 0]

\* datetime(Y, M, D, h, mi), ok = FALSE where it raises ValueError
NaiveDateTime(Y, M, D, h, mi) ==
  IF Y < 1 \/ D > DaysInMonth(Y, M) THEN NoTime
  ELSE [ok |-> TRUE, Y |-> Y, M |-> M, D |-> D, h |-> h, mi |-> mi]

\* The datetime of the groups of the match r of s, r as MatchFrom gives it.
FromMatch(s, r) ==
  IF r = <<>> \/ r[6] # Len(s) + 1 THEN NoTime
  ELSE NaiveDateTime(ToInt(SubSeq(s, 1, r[1] - 1)), ToInt(SubSeq(s, r[1], r[2] - 1)),
                     ToInt(SubSeq(s, r[2], r[3] - 1)), ToInt(SubSeq(s, r[3], r[4] - 1)),
                     ToInt(SubSeq(s, r[4], r[5] - 1)))

\* The naive datetime, or ok = FALSE where strptime raises ValueError.
Strptime(s) == FromMatch(s, MatchFrom(s, 1, 1))

(***************************************************************************)
(* Calendar arithmetic of datetime: proleptic Gregorian ordinals (day 1 is *)
(* 0001-01-01) and minutes since the start of day 0.                       *)
(***************************************************************************)
DaysBeforeYear(y) ==
  (y - 1) * 365 + ((y - 1) \div 4) - ((y - 1) \div 100) + ((y - 1) \div 400)

RECURSIVE DaysBeforeMonth(_, _)
DaysBeforeMonth(y, m) ==
  IF m = 1 THEN 0 ELSE DaysBeforeMonth(y, m - 1) + DaysInMonth(y, m - 1)

Ymd2Ord(y, m, d) == DaysBeforeYear(y) + DaysBeforeMonth(y, m) + d

\* date.weekday(): Monday is 0, Sunday is 6.
Weekday(ord) == (ord + 6) % 7

\* The year, and the month of year y, that hold day n, day r of the year.
YearOf(n) ==
  CHOOSE yy \in (n \div 366)..((n \div 365) + 1) :
    DaysBeforeYear(yy) < n /\ n <= DaysBeforeYear(yy + 1)

MonthOf(y, r) ==
  CHOOSE mm \in 1..12 :
    DaysBeforeMonth(y, mm) < r /\ r <= DaysBeforeMonth(y, mm) + DaysInMonth(y, mm)

DayOfMonth(y, m, r) == [Y |-> y, M |-> m, D |-> r - DaysBeforeMonth(y, m)]

DayOfYear(y, r) == DayOfMonth(y, MonthOf(y, r), r)

DayIn(y, n) == DayOfYear(y, n - DaysBeforeYear(y))

Ord2Ymd(n) == DayIn(YearOf(n), n)

\* Minutes of a naive datetime since the start of day 0.
Minutes(dt) == Ymd2Ord(dt.Y, dt.M, dt.D) * 1440 + dt.h * 60 + dt.mi

AtTime(ymd, h, mi) == [ok |-> TRUE, Y |-> ymd.Y, M |-> ymd.M, D |-> ymd.D, h |-> h, mi |-> mi]

FromMinutes(n) == AtTime(Ord2Ymd(n \div 1440), (n % 1440) \div 60, n % 60)

(***************************************************************************)
(* pytz.timezone("Europe/Berlin").localize(dt) with the default            *)
(* is_dst=False, under the rule in force since 1996: summer time (UTC+2)   *)
(* from the last Sunday of March, 02:00 CET, to the last Sunday of         *)
(* October, 03:00 CEST.  A wall-clock time the spring change skips and one *)
(* the autumn change repeats both get the standard offset (UTC+1).         *)
(***************************************************************************)
LastSunday(y, m) == 31 - ((Weekday(Ymd2Ord(y, m, 31)) + 1) % 7)

\* The first minute of summer time in year y, and the first after it.
DstStart(y) == Ymd2Ord(y, 3, LastSunday(y, 3)) * 1440 + 180

DstEnd(y) == Ymd2Ord(y, 10, LastSunday(y, 10)) * 1440 + 120

OffsetAt(local, y) == IF DstStart(y) <= local /\ local < DstEnd(y) THEN 120 ELSE 60

BerlinOffset(dt) == OffsetAt(Minutes(dt), dt.Y)

\* A variant that takes Berlin for a zone of fixed offset UTC+1.
LocalizeStandard(dt) == [dt |-> dt, off |-> 60]

\* An aware datetime: the wall-clock fields and the UTC offset in minutes.
Localize(dt) == [dt |-> dt, off |-> BerlinOffset(dt)]

\* aware.astimezone(pytz.utc), as a naive UTC datetime
AsUtc(aware) == FromMinutes(Minutes(aware.dt) - aware.off)

RECURSIVE Pad(_, _)
Pad(n, w) == IF w = 0 THEN <<>> ELSE Pad(n \div 10, w - 1) \o <<DigitChars[(n % 10) + 1]>>

\* strftime("%Y%m%dT%H%M%SZ")
Strftime(dt, sec) ==
  Pad(dt.Y, 4) \o Pad(dt.M, 2) \o Pad(dt.D, 2) \o <<"T">>
    \o Pad(dt.h, 2) \o Pad(dt.mi, 2) \o Pad(sec, 2) \o <<"Z">>

\* datetime.now(pytz.utc).strftime(...): the clock counts the seconds since
\* 2024-01-10 06:00:00 UTC.
ClockEpoch == [ok |-> TRUE, Y |-> 2024, M |-> 1, D |-> 10, h |-> 6, mi |-> 0]

Stamp(clock) == Strftime(ClockEpoch, clock)

(***************************************************************************)
(* The string literals of generate_ics.                                     *)
(***************************************************************************)
sUnbekannt == <<"U", "n", "b", "e", "k", "a", "n", "n", "t">>
sMidnight == <<"0", "0", "0", "0">>
sHinweis == <<"\n", "H", "i", "n", "w", "e", "i", "s", ":", " ">>
sClassFree == <<"c", "l", "a", "s", "s", "F", "r", "e", "e">>
sCancellation == <<"c", "a", "n", "c", "e", "l", "l", "a", "t", "i", "o", "n">>
sSubstitution == <<"s", "u", "b", "s", "t", "i", "t", "u", "t", "i", "o", "n">>
sTrue == <<"t", "r", "u", "e">>
sVertretung == <<"v", "e", "r", "t", "r", "e", "t", "u", "n", "g">>
sEntfaellt == <<"E", "N", "T", "F", "Ä", "L", "L", "T", ":", " ">>
sVertretungPrefix == <<"V", "E", "R", "T", "R", "E", "T", "U", "N", "G", ":", " ">>
sLehrer == <<"L", "e", "h", "r", "e", "r", ":", " ">>
sDavinci == <<"d", "a", "v", "i", "n", "c", "i", "-">>
sSync == <<"@", "s", "y", "n", "c">>

Line(name, val) == [name |-> name, val |-> val]

\* ics_lines as first built (lines 41-49)
Header ==
  <<Line("BEGIN:VCALENDAR", <<>>), Line("VERSION:2.0", <<>>),
    Line("PRODID:-//DaVinci to ICS//NONSGML v1.0//EN", <<>>),
    Line("CALSCALE:GREGORIAN", <<>>), Line("METHOD:PUBLISH", <<>>),
    Line("X-WR-CALNAME:DaVinci Stundenplan", <<>>),
    Line("X-WR-TIMEZONE:Europe/Berlin", <<>>)>>

Footer == Line("END:VCALENDAR", <<>>)

(***************************************************************************)
(* The body of the lesson loop (lines 52-86).                           *)
(***************************************************************************)
Subject(lsn) == Get(lsn.subjectCode, Get(lsn.courseTitle, Str(sUnbekannt)))

StartTimeStr(lsn) == Get(lsn.startTime, Str(sMidnight))

EndTimeStr(lsn) == Get(lsn.endTime, Str(sMidnight))

\* rooms[0] if rooms else "": null and the empty list are falsy
Room(lsn) ==
  LET rooms == Get(lsn.roomCodes, List(<<>>))
  IN IF rooms.k = "list" /\ rooms.l # <<>> THEN rooms.l[1] ELSE Str(<<>>)

Teachers(lsn) == Get(lsn.teacherCodes, List(<<>>))

\* ", ".join(teachers) raises TypeError on None and on a member that is no string
TeacherRaises(lsn) ==
  LET t == Teachers(lsn)
  IN t.k # "list" \/ \E i \in 1..Len(t.l) : t.l[i].k # "str"

Teacher(lsn) ==
  LET t == Teachers(lsn)
  IN Join([i \in 1..Len(t.l) |-> t.l[i].s])

\* if changes: a dict is truthy when it has a key
ChangesTruthy(ch) ==
  /\ ch.k = "obj"
  /\ \E f \in {"caption", "type", "cancelled", "modified"} : ch[f].k # "absent"

Caption(ch) == Get(ch.caption, Str(<<>>))

ChangeType(ch) == Get(ch.type, Str(<<>>))

Note(ch) ==
  IF ChangesTruthy(ch) /\ Caption(ch).k = "str" /\ Caption(ch).s # <<>>
  THEN sHinweis \o Caption(ch).s
  ELSE <<>>

IsCancelled(ch) ==
  /\ ChangesTruthy(ch)
  /\ (ch.cancelled = Str(sClassFree) \/ ChangeType(ch) = Str(sCancellation))

\* The first two tests of line 76, which short-circuit the caption test.
ModifiedOrSubstitutionType(ch) ==
  ch.modified = Str(sTrue) \/ ChangeType(ch) = Str(sSubstitution)

\* caption.lower() is reached with a caption that is None: AttributeError
ChangesRaises(ch) ==
  /\ ChangesTruthy(ch)
  /\ ~ModifiedOrSubstitutionType(ch)
  /\ Caption(ch).k # "str"

\* A variant that looks for "vertretung" in the caption as it is written.
IsSubstitutionCaseSensitive(ch) ==
  /\ ChangesTruthy(ch)
  /\ \/ ModifiedOrSubstitutionType(ch)
     \/ Caption(ch).k = "str" /\ Contains(Caption(ch).s, sVertretung)

IsSubstitution(ch) ==
  /\ ChangesTruthy(ch)
  /\ \/ ModifiedOrSubstitutionType(ch)
     \/ Caption(ch).k = "str" /\ Contains(Lower(Caption(ch).s), sVertretung)

\* A variant that tests the substitution before the cancellation.
TitlePrefixSubstitutionFirst(ch) ==
  IF IsSubstitution(ch) THEN sVertretungPrefix
  ELSE IF IsCancelled(ch) THEN sEntfaellt
  ELSE <<>>

TitlePrefix(ch) ==
  IF IsCancelled(ch) THEN sEntfaellt
  ELSE IF IsSubstitution(ch) THEN sVertretungPrefix
  ELSE <<>>

FinalTitle(lsn) == TitlePrefix(lsn.changes) \o Fmt(Subject(lsn))

Description(lsn) == sLehrer \o Teacher(lsn) \o Note(lsn.changes)

(***************************************************************************)
(* The body of the date loop (lines 91-131): the lines one date adds to    *)
(* ics_lines, none when anything inside the try raises.                    *)
(***************************************************************************)
Uid(subject, date, start) ==
  sDavinci \o Replace(subject.s, " ", <<>>) \o <<"-">> \o Fmt(date) \o <<"-">>
    \o Fmt(start) \o sSync

\* A variant that builds the uid from the end time.
UidLineFromEnd(lsn, date) == Line("UID:", Uid(Subject(lsn), date, EndTimeStr(lsn)))

\* f"UID:{uid}", uid built from subject, date_str and start_time_str
UidLine(lsn, date) == Line("UID:", Uid(Subject(lsn), date, StartTimeStr(lsn)))

\* datetime.strptime(f"{date_str}{time_str}", "%Y%m%d%H%M")
ParseDateTime(date, time) == Strptime(Fmt(date) \o Fmt(time))

\* tz.localize(dt).astimezone(pytz.utc).strftime("%Y%m%dT%H%M%SZ")
UtcText(dt) == Strftime(AsUtc(Localize(dt)), 0)

\* What the try block raises on before ics_lines.extend: strptime on either
\* text, and subject.replace on a subject that is no string.
DateRaises(lsn, start_dt, end_dt) ==
  ~start_dt.ok \/ ~end_dt.ok \/ Subject(lsn).k # "str"

\* The lines of the event, start_dt and end_dt the two parsed datetimes.
EventBlock(lsn, date, clock, start_dt, end_dt) ==
  IF DateRaises(lsn, start_dt, end_dt) THEN <<>>
  ELSE <<Line("BEGIN:VEVENT", <<>>),
         UidLine(lsn, date),
         Line("DTSTAMP:", Stamp(clock)),
         Line("DTSTART:", UtcText(start_dt)),
         Line("DTEND:", UtcText(end_dt)),
         Line("SUMMARY:", FinalTitle(lsn)),
         Line("LOCATION:", Fmt(Room(lsn))),
         Line("DESCRIPTION:", Replace(Description(lsn), "\n", <<"\\", "n">>))>>
       \o (IF IsCancelled(lsn.changes) THEN <<Line("STATUS:CANCELLED", <<>>)>> ELSE <<>>)
       \o <<Line("END:VEVENT", <<>>)>>

EventLines(lsn, date, clock) ==
  EventBlock(lsn, date, clock, ParseDateTime(date, StartTimeStr(lsn)),
             ParseDateTime(date, EndTimeStr(lsn)))

Dates(lsn) == Get(lsn.dates, List(<<>>))

\* What one pass of the date loop leaves: the lines it adds, with the
\* lesson fields they came from.
Occurrence(lsn, date, clock) ==
  [lesson |-> lsn, subject |-> Subject(lsn), date |-> date,
   start |-> StartTimeStr(lsn), lines |-> EventLines(lsn, date, clock)]

\* The passes of the date loop over dates, in order.
DateLoop(lsn, dates, clock) ==
  [i \in 1..Len(dates) |-> Occurrence(lsn, dates[i], clock)]

\* The lines the passes add to ics_lines, in order.
RECURSIVE LessonLines(_)
LessonLines(passes) ==
  IF passes = <<>> THEN <<>>
  ELSE Head(passes).lines \o LessonLines(Tail(passes))

\* The exception that escapes the iteration of lsn, "" when none does.
LessonRaises(lsn) ==
  IF TeacherRaises(lsn) THEN "TypeError"
  ELSE IF ChangesRaises(lsn.changes) THEN "AttributeError"
  ELSE IF Dates(lsn).k # "list" THEN "TypeError"
  ELSE ""

(***************************************************************************)
(* The inputs: what response.json() may hold.  The schedule is a record    *)
(* of the shape of its top levels (k: "none" for None, "empty" for {},     *)
(* "obj" for a dict with keys; result, display: "absent", "null" or "obj"; *)
(* lessonTimes: "absent", "null" or "list" with n lessons); the lessons    *)
(* themselves are drawn as the loop reaches them.                          *)
(***************************************************************************)
Shape(k, result, display, lessonTimes, n) ==
  [k |-> k, result |-> result, display |-> display, lessonTimes |-> lessonTimes, n |-> n]

NoData == Shape("none", "absent", "absent", "absent", 0)

DataDomain ==
  {NoData,
   Shape("empty", "absent", "absent", "absent", 0),
   Shape("obj", "absent", "absent", "absent", 0),
   Shape("obj", "null", "absent", "absent", 0),
   Shape("obj", "obj", "absent", "absent", 0),
   Shape("obj", "obj", "null", "absent", 0),
   Shape("obj", "obj", "obj", "absent", 0),
   Shape("obj", "obj", "obj", "null", 0)}
  \cup {Shape("obj", "obj", "obj", "list", n) : n \in 0..MaxLessons}

\* bool(data) in "if data:" and "not schedule_data"
Truthy(d) == d.k = "obj"

tAB == <<"A", "B">>
tASpaceB == <<"A", " ", "B">>
tMathe == <<"M", "a", "t", "h", "e">>
t0800 == <<"0", "8", "0", "0">>
t0930 == <<"0", "9", "3", "0">>
t0945 == <<"0", "9", "4", "5">>
t1015 == <<"1", "0", "1", "5">>
t2500 == <<"2", "5", "0", "0">>
t0130 == <<"0", "1", "3", "0">>
t0230 == <<"0", "2", "3", "0">>
t0330 == <<"0", "3", "3", "0">>
t2345 == <<"2", "3", "4", "5">>
t0045 == <<"0", "0", "4", "5">>
tR1 == <<"R", "1">>
tR2 == <<"R", "2">>
tT1 == <<"T", "1">>
tT2 == <<"T", "2">>
tCapVertretung == <<"M", "a", "t", "h", "e", "-", "V", "e", "r", "t", "r", "e", "t", "u", "n", "G", " ", "H", "r", ".", " ", "X">>
tCapRaum == <<"R", "a", "u", "m">>
dWinter == <<"2", "0", "2", "4", "0", "1", "1", "5">>
dSummer == <<"2", "0", "2", "4", "0", "7", "1", "6">>
dShort == <<"2", "0", "2", "4", "0", "1", "1">>
dMonth13 == <<"2", "0", "2", "4", "1", "3", "0", "1">>
dMar30 == <<"2", "0", "2", "4", "0", "3", "3", "0">>
dMar31 == <<"2", "0", "2", "4", "0", "3", "3", "1">>
dApr01 == <<"2", "0", "2", "4", "0", "4", "0", "1">>
dOct26 == <<"2", "0", "2", "4", "1", "0", "2", "6">>
dOct27 == <<"2", "0", "2", "4", "1", "0", "2", "7">>
dOct28 == <<"2", "0", "2", "4", "1", "0", "2", "8">>
dMar30y25 == <<"2", "0", "2", "5", "0", "3", "3", "0">>
dOct26y25 == <<"2", "0", "2", "5", "1", "0", "2", "6">>
dNewYear == <<"2", "0", "2", "4", "0", "1", "0", "1">>

Changes(caption, type, cancelled, modified) ==
  [k |-> "obj", caption |-> caption, type |-> type, cancelled |-> cancelled,
   modified |-> modified]

AbsentChanges ==
  [k |-> "absent", caption |-> Absent, type |-> Absent, cancelled |-> Absent,
   modified |-> Absent]

NullChanges == [AbsentChanges EXCEPT !.k = "null"]

ChangesDomain ==
  {AbsentChanges, NullChanges}
  \cup {Changes(c, t, x, m) :
          c \in {Absent, Null, Str(tCapVertretung), Str(tCapRaum)},
          t \in {Absent, Str(sCancellation), Str(sSubstitution)},
          x \in {Absent, Str(sClassFree)},
          m \in {Absent, Str(sTrue)}}

BaseLesson ==
  [subjectCode |-> Str(tAB), courseTitle |-> Absent,
   startTime |-> Str(t0800), endTime |-> Str(t0930),
   roomCodes |-> List(<<Str(tR1)>>), teacherCodes |-> List(<<Str(tT1)>>),
   changes |-> AbsentChanges, dates |-> List(<<Str(dWinter)>>)]

\* The lists of at most n members of vals
RECURSIVE SeqsUpTo(_, _)
SeqsUpTo(vals, n) ==
  IF n = 0 THEN {<<>>}
  ELSE LET shorter == SeqsUpTo(vals, n - 1)
       IN shorter \cup {Append(q, v) : q \in shorter, v \in vals}

\* Lessons that differ in their change notice, their fields or their dates.
GeneralLessons ==
  {[BaseLesson EXCEPT !.changes = c] : c \in ChangesDomain}
  \cup {[BaseLesson EXCEPT !.subjectCode = sc, !.courseTitle = ct] :
          sc \in {Absent, Null, Str(tASpaceB)}, ct \in {Absent, Null, Str(tMathe)}}
  \cup {[BaseLesson EXCEPT !.startTime = st] : st \in {Absent, Null, Str(t2500)}}
  \cup {[BaseLesson EXCEPT !.endTime = et] : et \in {Absent, Null, Str(t2500)}}
  \cup {[BaseLesson EXCEPT !.roomCodes = r] :
          r \in {AbsentList, NullList, List(<<>>), List(<<Null>>),
                 List(<<Str(tR1), Str(tR2)>>)}}
  \cup {[BaseLesson EXCEPT !.teacherCodes = t] :
          t \in {AbsentList, NullList, List(<<>>), List(<<Str(tT1), Null>>),
                 List(<<Str(tT1), Str(tT2)>>)}}
  \cup {[BaseLesson EXCEPT !.dates = d] : d \in {AbsentList, NullList, List(<<Null>>)}}
  \cup {[BaseLesson EXCEPT !.dates = List(q), !.changes = c] :
          q \in SeqsUpTo({Str(dWinter), Str(dShort), Str(dMonth13)}, MaxDates),
          c \in {AbsentChanges, Changes(Absent, Absent, Str(sClassFree), Absent)}}

\* Lessons around the changes of the clock in 2024 and 2025.
ClockChangeDates ==
  {<<Str(d)>> : d \in {dWinter, dSummer, dNewYear, dMar30, dMar31, dApr01, dOct26,
                       dOct27, dOct28, dMar30y25, dOct26y25}}
  \cup {<<Str(dMar30), Str(dMar31)>>, <<Str(dOct26), Str(dOct27)>>,
        <<Str(dMar30y25), Str(dOct26y25)>>, <<Str(dWinter), Str(dSummer)>>}

ClockChangeLessons ==
  {[BaseLesson EXCEPT !.startTime = Str(t[1]), !.endTime = Str(t[2]), !.dates = List(q)] :
     t \in {<<t0800, t0930>>, <<t0130, t0230>>, <<t0230, t0330>>,
            <<t0130, t0330>>, <<t0045, t2345>>},
     q \in ClockChangeDates}

\* Lessons that share or nearly share (subject, date, start time).
RecurringLessons ==
  {BaseLesson,
   [BaseLesson EXCEPT !.endTime = Str(t1015), !.roomCodes = List(<<Str(tR2)>>),
                      !.teacherCodes = List(<<Str(tT2)>>),
                      !.changes = Changes(Str(tCapRaum), Absent, Str(sClassFree), Absent)],
   [BaseLesson EXCEPT !.subjectCode = Str(tASpaceB)],
   [BaseLesson EXCEPT !.startTime = Str(t0945), !.endTime = Str(t1015)]}

(***************************************************************************)
(* The state of one process and of what outlives it.                       *)
(***************************************************************************)
VARIABLES
  pc,          \* "start", "fetched", "gen", "loop", "returned", "raised", "exit"
  data,        \* the schedule: get_davinci_schedule's result, generate_ics's argument
  outcome,     \* how the HTTP request ended, "" before it and without one
  requests,    \* HTTP requests sent by this process
  ics_lines,   \* generate_ics's list of lines
  li,          \* lessons the loop has taken
  lesson,      \* the lesson the loop took last
  mark,        \* Len(ics_lines) when that lesson was taken
  ret,         \* generate_ics's return value: "", "True" or "False"
  exc,         \* the exception that escaped, "" when none
  file,        \* the output file
  file0,       \* the output file as this process found it
  now,         \* the clock, in seconds
  run,         \* the number of this run
  published,   \* history: every event block built so far, with the lesson fields it came from
  domain       \* which lessons the server's timetable holds

vars == <<pc, data, outcome, requests, ics_lines, li, lesson, mark, ret, exc, file,
          file0, now, run, published, domain>>

NoFile == [exists |-> FALSE, lines |-> <<>>]

\* A calendar left at the target path by an earlier run.
OldFile == [exists |-> TRUE, lines |-> Header \o <<Line("X-PREVIOUS-RUN", <<>>), Footer>>]

InitWith(d, files) ==
  /\ pc = "start"
  /\ data = NoData
  /\ outcome = ""
  /\ requests = 0
  /\ ics_lines = <<>>
  /\ li = 0
  /\ lesson = BaseLesson
  /\ mark = 0
  /\ ret = ""
  /\ exc = ""
  /\ file \in files
  /\ file0 = file
  /\ now = 0
  /\ run = 1
  /\ published = {}
  /\ domain = d

Init == InitWith("general", {NoFile, OldFile})

InitClock == InitWith("clock", {NoFile})

InitRuns == InitWith("recurring", {NoFile})

(***************************************************************************)
(* get_davinci_schedule (lines 11-28), called at line 151: one request;    *)
(* every exception of the request, the status check and the JSON parse is  *)
(* caught and None returned.                                               *)
(***************************************************************************)
FetchOutcomes == {"ok", "connection_error", "timeout", "http_error", "invalid_json"}

FetchResult(o, d) == IF o = "ok" THEN d ELSE NoData

FetchRequests(n) == n + 1

GetDavinciSchedule ==
  /\ pc = "start"
  /\ \E o \in FetchOutcomes, d \in DataDomain :
       /\ outcome' = o
       /\ data' = FetchResult(o, d)
  /\ requests' = FetchRequests(requests)
  /\ pc' = "fetched"
  /\ UNCHANGED <<ics_lines, li, lesson, mark, ret, exc, file, file0, now, run,
                 published, domain>>

\* A variant of the main flow without the test of line 152.
MainCallsUnguarded(d) == TRUE

\* "if data:" (line 152)
MainCalls(d) == Truthy(d)

\* lines 152-153: generate_ics is called only with data that is truthy
MainGuard ==
  /\ pc = "fetched"
  /\ pc' = IF MainCalls(data) THEN "gen" ELSE "exit"
  /\ UNCHANGED <<data, outcome, requests, ics_lines, li, lesson, mark, ret, exc, file,
                 file0, now, run, published, domain>>

\* generate_ics called by an importing module, with any argument
DirectCall ==
  /\ pc = "start"
  /\ \E d \in DataDomain : data' = d
  /\ pc' = "gen"
  /\ UNCHANGED <<outcome, requests, ics_lines, li, lesson, mark, ret, exc, file, file0,
                 now, run, published, domain>>

(***************************************************************************)
(* generate_ics, lines 31-49: the guard, the lesson list, the header.      *)
(***************************************************************************)
\* line 31, where it returns False
GuardRejects(d) ==
  \/ ~Truthy(d)
  \/ d.result = "absent"
  \/ d.result = "obj" /\ d.display = "absent"

\* What lines 31-51 raise before the first lesson: "in" on a result that is
\* None, .get on a displaySchedule that is None, iteration over None.
EnterRaises(d) ==
  IF GuardRejects(d) THEN ""
  ELSE IF d.result = "null" THEN "TypeError"
  ELSE IF d.display = "null" THEN "AttributeError"
  ELSE IF d.lessonTimes = "null" THEN "TypeError"
  ELSE ""

\* len(lesson_times), [] when the key is absent
LessonCount(d) == IF d.lessonTimes = "list" THEN d.n ELSE 0

GenerateIcsEnter ==
  /\ pc = "gen"
  /\ IF GuardRejects(data)
       THEN /\ ret' = "False"
            /\ pc' = "returned"
            /\ UNCHANGED <<ics_lines, exc>>
       ELSE IF EnterRaises(data) # ""
       THEN /\ exc' = EnterRaises(data)
            /\ pc' = "raised"
            \* the header is built at line 41, after lines 35-36
            /\ ics_lines' = IF data.lessonTimes = "null" /\ data.display = "obj"
                              THEN Header ELSE ics_lines
            /\ UNCHANGED ret
       ELSE /\ ics_lines' = Header
            /\ pc' = "loop"
            /\ UNCHANGED <<ret, exc>>
  /\ UNCHANGED <<data, outcome, requests, li, lesson, mark, file, file0, now, run,
                 published, domain>>

(***************************************************************************)
(* One iteration of the lesson loop (lines 51-131).                        *)
(***************************************************************************)
\* The event blocks among the passes of the date loop.
Occurrences(passes) ==
  {passes[i] : i \in {j \in 1..Len(passes) : passes[j].lines # <<>>}}

Completed(passes) ==
  [raises |-> "", lines |-> LessonLines(passes), occurrences |-> Occurrences(passes)]

Raised(e) == [raises |-> e, lines |-> <<>>, occurrences |-> {}]

\* What one iteration does with lesson l when the clock reads clock.
Iteration(l, clock) ==
  IF LessonRaises(l) # "" THEN Raised(LessonRaises(l))
  ELSE Completed(DateLoop(l, Dates(l).l, clock))

\* The lessons a timetable of the given kind holds.
LessonsIn(d) ==
  IF d = "general" THEN GeneralLessons
  ELSE IF d = "clock" THEN ClockChangeLessons
  ELSE RecurringLessons

IterationsOf(d) ==
  {[domain |-> d, lesson |-> l, clock |-> c, does |-> Iteration(l, c)] :
     l \in LessonsIn(d), c \in 0..MaxClock}

\* Iteration, tabulated once over the lessons and the clock readings of the
\* model.
Iterations == UNION {IterationsOf(d) : d \in {"general", "clock", "recurring"}}

LessonStep ==
  /\ pc = "loop"
  /\ li < LessonCount(data)
  /\ \E it \in Iterations :
       /\ it.domain = domain
       /\ it.clock = now
       /\ lesson' = it.lesson
       /\ IF it.does.raises # ""
            THEN /\ exc' = it.does.raises
                 /\ pc' = "raised"
                 /\ UNCHANGED <<ics_lines, published>>
            ELSE /\ ics_lines' = ics_lines \o it.does.lines
                 /\ published' = published \cup
                                   {[run |-> run, occ |-> o] : o \in it.does.occurrences}
                 /\ UNCHANGED <<pc, exc>>
  /\ li' = li + 1
  /\ mark' = Len(ics_lines)
  /\ UNCHANGED <<data, outcome, requests, ret, file, file0, now, run, domain>>

(***************************************************************************)
(* generate_ics, lines 133-139: the footer, the file, True.                *)
(***************************************************************************)
\* A variant that opens the file to append.
WrittenAppend(old, lines) == [exists |-> TRUE, lines |-> old.lines \o lines]

\* open(output_file, 'w') and write: the file holds the joined lines and
\* nothing of what old, the file before, held
Written(old, lines) == [exists |-> TRUE, lines |-> lines]

WriteFile ==
  /\ pc = "loop"
  /\ li = LessonCount(data)
  /\ ics_lines' = Append(ics_lines, Footer)
  /\ file' = Written(file, ics_lines')
  /\ ret' = "True"
  /\ pc' = "returned"
  /\ UNCHANGED <<data, outcome, requests, li, lesson, mark, exc, file0, now, run,
                 published, domain>>

(***************************************************************************)
(* The script is run again later (a scheduled job): a new process, the     *)
(* same file, a later clock.                                               *)
(***************************************************************************)
Rerun ==
  /\ pc \in {"returned", "raised", "exit"}
  /\ run < MaxRuns
  /\ run' = run + 1
  /\ \E t \in now..MaxClock : now' = t
  /\ pc' = "start"
  /\ data' = NoData
  /\ outcome' = ""
  /\ requests' = 0
  /\ ics_lines' = <<>>
  /\ li' = 0
  /\ lesson' = BaseLesson
  /\ mark' = 0
  /\ ret' = ""
  /\ exc' = ""
  /\ file0' = file
  /\ UNCHANGED <<file, published, domain>>

Next ==
  \/ GetDavinciSchedule
  \/ MainGuard
  \/ DirectCall
  \/ GenerateIcsEnter
  \/ LessonStep
  \/ WriteFile

NextRuns == Next \/ Rerun

Spec == Init /\ [][Next]_vars

SpecClock == InitClock /\ [][Next]_vars

SpecRuns == InitRuns /\ [][NextRuns]_vars

(***************************************************************************)
(* What the claims speak of: the lines the lesson taken last added, the    *)
(* event blocks among lines, and the fields of one block.                  *)
(***************************************************************************)
Added == SubSeq(ics_lines, mark + 1, Len(ics_lines))

Named(lines, name) == {i \in 1..Len(lines) : lines[i].name = name}

Names(lines) == [i \in 1..Len(lines) |-> lines[i].name]

Events(lines) ==
  {SubSeq(lines, p[1], p[2]) :
     p \in {q \in Named(lines, "BEGIN:VEVENT") \X Named(lines, "END:VEVENT") :
              /\ q[1] < q[2]
              /\ \A k \in (q[1] + 1)..(q[2] - 1) :
                   lines[k].name \notin {"BEGIN:VEVENT", "END:VEVENT"}}}

Field(ev, name) == ev[CHOOSE i \in 1..Len(ev) : ev[i].name = name].val

LessonDone == pc = "loop" /\ li > 0

\* The dates of lsn whose text parses with the start and with the end time.
ParsedDates(lsn) ==
  {i \in 1..Len(Dates(lsn).l) :
     /\ ParseDateTime(Dates(lsn).l[i], StartTimeStr(lsn)).ok
     /\ ParseDateTime(Dates(lsn).l[i], EndTimeStr(lsn)).ok}

\* C1: a lesson adds as many VEVENT blocks as it has dates whose date+start
\* and date+end both parse, each block closed.
C1_EventPerParsedDate ==
  LessonDone =>
    /\ Cardinality(Named(Added, "BEGIN:VEVENT")) = Cardinality(ParsedDates(lesson))
    /\ Cardinality(Named(Added, "END:VEVENT")) = Cardinality(ParsedDates(lesson))

SameTriple(a, b) == a.subject = b.subject /\ a.date = b.date /\ a.start = b.start

\* C2: events built from the same subject, date and start time carry the
\* same UID, in whichever run and with whatever other fields; the same lesson
\* and date give, in any two runs, blocks that differ in DTSTAMP at most.
C2_UidDeterministic ==
  \A a, b \in published :
    /\ SameTriple(a.occ, b.occ) =>
         Field(a.occ.lines, "UID:") = Field(b.occ.lines, "UID:")
    /\ (a.occ.lesson = b.occ.lesson /\ a.occ.date = b.occ.date) =>
         /\ Len(a.occ.lines) = Len(b.occ.lines)
         /\ \A i \in 1..Len(a.occ.lines) :
              a.occ.lines[i].name # "DTSTAMP:" => a.occ.lines[i] = b.occ.lines[i]

\* Two runs at different times built the same occurrence from lessons that
\* differ in room, teacher, end time and change notice.
C2_Witness ==
  \E a, b \in published :
    /\ a.run # b.run
    /\ SameTriple(a.occ, b.occ)
    /\ Field(a.occ.lines, "DTSTAMP:") # Field(b.occ.lines, "DTSTAMP:")
    /\ Field(a.occ.lines, "LOCATION:") # Field(b.occ.lines, "LOCATION:")
    /\ Field(a.occ.lines, "DTEND:") # Field(b.occ.lines, "DTEND:")
    /\ Field(a.occ.lines, "UID:") = Field(b.occ.lines, "UID:")

\* The cancellation sentinel of C3: cancelled == "classFree" or type == "cancellation".
CancellationSet(lsn) ==
  /\ lsn.changes.k = "obj"
  /\ (lsn.changes.cancelled = Str(sClassFree) \/ lsn.changes.type = Str(sCancellation))

HasStatusCancelled(ev) == Named(ev, "STATUS:CANCELLED") # {}

\* C3: every event of a cancelled lesson has a SUMMARY that starts with
\* "ENTFÄLLT: " and a STATUS:CANCELLED line, whatever modified, type and
\* caption hold; no event of another lesson has STATUS:CANCELLED.
C3_CancelledMarked ==
  LessonDone =>
    \A ev \in Events(Added) :
      IF CancellationSet(lesson)
      THEN StartsWith(Field(ev, "SUMMARY:"), sEntfaellt) /\ HasStatusCancelled(ev)
      ELSE ~HasStatusCancelled(ev)

\* A lesson that is cancelled and, by all three tests, substituted has added
\* an event.
C3_Witness ==
  /\ LessonDone
  /\ lesson.changes.k = "obj"
  /\ lesson.changes.cancelled = Str(sClassFree)
  /\ lesson.changes.modified = Str(sTrue)
  /\ lesson.changes.type = Str(sSubstitution)
  /\ lesson.changes.caption = Str(tCapVertretung)
  /\ \E ev \in Events(Added) :
       StartsWith(Field(ev, "SUMMARY:"), sEntfaellt) /\ HasStatusCancelled(ev)

CaptionSaysVertretung(lsn) ==
  /\ lsn.changes.k = "obj"
  /\ lsn.changes.caption.k = "str"
  /\ Contains(Lower(lsn.changes.caption.s), sVertretung)

\* C4 as stated: a caption that contains "vertretung" in any letter case, on
\* a change whose cancelled field is not "classFree", gives every event of
\* the lesson a SUMMARY that starts with "VERTRETUNG: ".
C4_AsStated ==
  (LessonDone /\ CaptionSaysVertretung(lesson)
     /\ lesson.changes.cancelled # Str(sClassFree)) =>
    \A ev \in Events(Added) : StartsWith(Field(ev, "SUMMARY:"), sVertretungPrefix)

\* C4, amended: a caption that contains "vertretung" in any letter case, on a
\* change whose cancelled field is not "classFree" and whose type is not
\* "cancellation", gives every event of the lesson a SUMMARY that starts with
\* "VERTRETUNG: ".
C4_NotCancelled ==
  (LessonDone /\ CaptionSaysVertretung(lesson)
     /\ lesson.changes.cancelled # Str(sClassFree)
     /\ lesson.changes.type # Str(sCancellation)) =>
    \A ev \in Events(Added) : StartsWith(Field(ev, "SUMMARY:"), sVertretungPrefix)

\* A caption with "VertretunG" in mixed case, no other field of the change
\* set, has given an event the substitution prefix.
C4_Witness ==
  /\ LessonDone
  /\ CaptionSaysVertretung(lesson)
  /\ ~Contains(lesson.changes.caption.s, sVertretung)
  /\ lesson.changes.cancelled = Absent
  /\ lesson.changes.type = Absent
  /\ lesson.changes.modified = Absent
  /\ \E ev \in Events(Added) : StartsWith(Field(ev, "SUMMARY:"), sVertretungPrefix)

\* The data lacks the path result.displaySchedule.
LacksPath(d) == d.k # "obj" \/ d.result # "obj" \/ d.display = "absent"

\* C5: on data that lacks result.displaySchedule, generate_ics returns False
\* and leaves the output file as it found it.
C5_MissingPathReturnsFalse ==
  (LacksPath(data) /\ pc \in {"returned", "raised"}) =>
    (ret = "False" /\ exc = "" /\ file = file0)

\* C6: on data that holds result.displaySchedule, generate_ics raises
\* nothing, and where it has ended it has written the file and returned True.
C6_NeverAborts ==
  (~LacksPath(data) /\ pc \in {"returned", "raised"}) =>
    (pc = "returned" /\ exc = "" /\ ret = "True" /\ file.exists /\ file.lines = ics_lines)

\* C7: after a request that failed, get_davinci_schedule has returned None
\* after one request and raised nothing, generate_ics is not entered, and the
\* output file is as the process found it.
C7_FetchFailureNoOutput ==
  outcome \notin {"", "ok"} =>
    /\ data = NoData
    /\ requests = 1
    /\ exc = ""
    /\ pc \in {"fetched", "exit"}
    /\ ret = ""
    /\ ics_lines = <<>>
    /\ file = file0

\* The main flow has ended after a request that timed out, a calendar of an
\* earlier run in place.
C7_Witness ==
  /\ outcome = "timeout"
  /\ pc = "exit"
  /\ requests = 1
  /\ file = OldFile

\* The offset from UTC, in minutes, in force in Berlin at wall-clock time t
\* of date d, read off the calendar: summer time began on 31 March 2024 and
\* 30 March 2025 and ended on 27 October 2024 and 26 October 2025; 0 for a
\* wall-clock time the change skips or repeats.
InForce(d, t) ==
  IF d \in {dWinter, dNewYear, dMar30, dOct28} THEN 60
  ELSE IF d \in {dSummer, dApr01, dOct26} THEN 120
  ELSE IF t \in {t0230} THEN 0
  ELSE IF d \in {dMar31, dMar30y25}
  THEN (IF t \in {t0045, t0130} THEN 60 ELSE 120)
  ELSE (IF t \in {t0045, t0130} THEN 120 ELSE 60)

\* Minutes since midnight of the wall-clock text HHMM.
WallMinutes(t) == ToInt(SubSeq(t, 1, 2)) * 60 + ToInt(SubSeq(t, 3, 4))

\* Minutes since midnight, and since day 0, of the text YYYYMMDDTHHMMSSZ.
UtcTimeOfDay(z) == ToInt(SubSeq(z, 10, 11)) * 60 + ToInt(SubSeq(z, 12, 13))

UtcMinutes(z) ==
  Ymd2Ord(ToInt(SubSeq(z, 1, 4)), ToInt(SubSeq(z, 5, 6)), ToInt(SubSeq(z, 7, 8))) * 1440
    + UtcTimeOfDay(z)

\* C8: DTSTART is the Berlin wall-clock start less the offset in force on
\* that date (08:00 gives 07:00Z in winter and 06:00Z in summer), the same
\* wall-clock time on the two sides of a change gives UTC times of day one
\* hour apart, and DTEND - DTSTART is the local end less the local start for a
\* lesson that does not span a change.
C8_BerlinToUtc ==
  /\ \A p \in published :
       LET d == p.occ.date.s
           st == p.occ.start.s
           en == p.occ.lesson.endTime.s
           dtstart == Field(p.occ.lines, "DTSTART:")
           dtend == Field(p.occ.lines, "DTEND:")
       IN /\ InForce(d, st) # 0 =>
               /\ UtcTimeOfDay(dtstart) = (WallMinutes(st) - InForce(d, st)) % 1440
               /\ (st = t0800 /\ InForce(d, st) = 60) =>
                    SubSeq(dtstart, 9, 16) = <<"T", "0", "7", "0", "0", "0", "0", "Z">>
               /\ (st = t0800 /\ InForce(d, st) = 120) =>
                    SubSeq(dtstart, 9, 16) = <<"T", "0", "6", "0", "0", "0", "0", "Z">>
          /\ (InForce(d, st) # 0 /\ InForce(d, en) = InForce(d, st)) =>
               UtcMinutes(dtend) - UtcMinutes(dtstart) = WallMinutes(en) - WallMinutes(st)
  /\ \A a, b \in published :
       (/\ a.occ.start = b.occ.start
        /\ InForce(a.occ.date.s, a.occ.start.s) = 60
        /\ InForce(b.occ.date.s, b.occ.start.s) = 120) =>
         (UtcTimeOfDay(Field(a.occ.lines, "DTSTART:"))
            - UtcTimeOfDay(Field(b.occ.lines, "DTSTART:"))) % 1440 = 60

\* One calendar holds an 08:00 lesson on the day before and on the day of
\* the change of 31 March 2024.
C8_Witness ==
  \E a, b \in published :
    /\ a.occ.date.s = dMar30 /\ b.occ.date.s = dMar31
    /\ a.occ.start.s = t0800 /\ b.occ.start.s = t0800
    /\ Field(a.occ.lines, "DTSTART:") \o Field(b.occ.lines, "DTSTART:")
         = dMar30 \o <<"T", "0", "7", "0", "0", "0", "0", "Z">>
             \o dMar31 \o <<"T", "0", "6", "0", "0", "0", "0", "Z">>
    /\ a.run = b.run

\* The fixed header lines, BEGIN:VCALENDAR through X-WR-TIMEZONE.
ContainerNames ==
  <<"BEGIN:VCALENDAR", "VERSION:2.0", "PRODID:-//DaVinci to ICS//NONSGML v1.0//EN",
    "CALSCALE:GREGORIAN", "METHOD:PUBLISH", "X-WR-CALNAME:DaVinci Stundenplan",
    "X-WR-TIMEZONE:Europe/Berlin">>

\* The displaySchedule is there and its lesson list is empty or absent.
NoLessons(d) ==
  /\ d.k = "obj" /\ d.result = "obj" /\ d.display = "obj"
  /\ (d.lessonTimes = "absent" \/ (d.lessonTimes = "list" /\ d.n = 0))

\* C9: with an empty or absent lesson list generate_ics returns True and the
\* file holds the header lines and END:VCALENDAR and nothing else; every file
\* written starts with the header, ends with END:VCALENDAR and holds the
\* lines of this run only.
C9_ContainerDocument ==
  /\ (NoLessons(data) /\ pc \in {"returned", "raised"}) =>
       /\ ret = "True"
       /\ exc = ""
       /\ file.exists
       /\ Names(file.lines) = ContainerNames \o <<"END:VCALENDAR">>
       /\ \A i \in 1..Len(file.lines) : file.lines[i].val = <<>>
  /\ (file # file0 \/ ret = "True") =>
       /\ pc = "returned" /\ ret = "True"
       /\ file.exists
       /\ Len(file.lines) > Len(ContainerNames)
       /\ Names(SubSeq(file.lines, 1, Len(ContainerNames))) = ContainerNames
       /\ file.lines[Len(file.lines)].name = "END:VCALENDAR"
       /\ Named(file.lines, "BEGIN:VCALENDAR") = {1}
       /\ file.lines = ics_lines

\* generate_ics has returned True on a schedule without lessonTimes, over a
\* calendar of an earlier run.
C9_Witness ==
  /\ pc = "returned"
  /\ NoLessons(data)
  /\ data.lessonTimes = "absent"
  /\ file0 = OldFile
  /\ Names(file.lines) = ContainerNames \o <<"END:VCALENDAR">>

\* C10: two events whose (subject, date, start time) differ have different
\* UIDs.
C10_UidUnique ==
  \A a, b \in published :
    ~SameTriple(a.occ, b.occ) => Field(a.occ.lines, "UID:") # Field(b.occ.lines, "UID:")

=============================================================================
